---- MODULE Spec2Model ----
(***************************************************************************)
(* A model of the video summarizer backend (src/backend.py): the two       *)
(* request handlers summarize_video and summarize_uploaded_video, the      *)
(* helpers they call, the in-memory summary_storage and the temporary file *)
(* namespace they share.                                                   *)
(*                                                                         *)
(* Text is a sequence of one-character strings.  Messages of exceptions    *)
(* are sequences of message parts (an f-string is the concatenation of its *)
(* parts).  An optional value is <<>> (None) or <<v>>.                     *)
(*                                                                         *)
(* The handlers are coroutines of one event loop (src/run_backend.py       *)
(* starts a single uvicorn process): a handler runs without interruption   *)
(* until it awaits, and the only await of the backend is file.read() in    *)
(* summarize_uploaded_video.  loop_owner is the request the loop runs.     *)
(***************************************************************************)
EXTENDS Integers, Sequences, FiniteSets, TLC

\* ---------------------------------------------------------------- bounds
\* Number of requests the server is handling at once.
NumSlots == 2
\* Number of requests received over a behaviour.
MaxRequests == 2
\* Number of random names tempfile.mktemp can draw from.
NumTempNames == 2
\* Number of pieces a locator is built from (extract_video_id's inputs).
MaxPieces == 3
\* Number of pieces of a language option (generate_summary's inputs).
MaxLanguagePieces == 3
\* Number of words of a short text (extract_keywords's inputs).
MaxWords == 3

\* ------------------------------------------------------ program constants
\* The length of a video id in the pattern of extract_video_id.
IdLen == 11
\* The number of keywords extract_keywords returns at most.
TopKeywords == 10
\* A keyword is longer than this.
MinKeywordExcl == 4
\* The pattern of extract_keywords matches words of at least this length.
MinWordLen == 4

VARIABLES
    summary_storage,  \* the list of stored records (backend.py:50)
    fs,               \* the paths that exist in the temporary directory
    open_videos,      \* request ids whose VideoFileClip is open
    req,              \* per slot: the handler's position and locals
    loop_owner,       \* the slot the event loop is running, 0 when free
    started,          \* the number of requests received so far
    uuid_count,       \* the number of ids uuid.uuid4 has returned
    issued,           \* the ids given to records, in order (history)
    clock,            \* the number of readings of datetime.now
    http_exc_str,     \* what str() of an HTTPException gives in this build
    returned,         \* the locals of the handler that ended in the last step
    locator,          \* the input of a single extract_video_id application
    extracted,        \* its result, <<>> before the application
    call,             \* a single call of a helper: its name and arguments
    outcome,          \* what the call gave, <<>> before it is made
    reply,            \* the answer of the store endpoint called in the last step
    launcher          \* check_backend_connection: its position and locals

vars == <<summary_storage, fs, open_videos, req, loop_owner, started,
          uuid_count, issued, clock, http_exc_str, returned, locator,
          extracted, call, outcome, reply, launcher>>

\* ------------------------------------------------------------- optionals
None == <<>>
Some(v) == <<v>>
IsSome(o) == Len(o) = 1
Get(o) == o[1]

\* No helper is being called on its own.
NoCall == [fn |-> ""]

\* check_backend_connection has not been called.
IdleLauncher == [pc |-> "idle", attempt |-> 0, log |-> <<>>, result |-> None]

\* ------------------------------------------------------------------ text
Range(s) == {s[i] : i \in 1..Len(s)}

RECURSIVE Repeat(_, _)
Repeat(c, n) == IF n <= 0 THEN <<>> ELSE <<c>> \o Repeat(c, n - 1)

UpperToLower ==
    [A |-> "a", B |-> "b", C |-> "c", D |-> "d", E |-> "e", F |-> "f",
     G |-> "g", H |-> "h", I |-> "i", J |-> "j", K |-> "k", L |-> "l",
     M |-> "m", N |-> "n", O |-> "o", P |-> "p", Q |-> "q", R |-> "r",
     S |-> "s", T |-> "t", U |-> "u", V |-> "v", W |-> "w", X |-> "x",
     Y |-> "y", Z |-> "z"]

\* str.lower on one character of the model's alphabet.
LowerChar(c) == IF c \in DOMAIN UpperToLower THEN UpperToLower[c] ELSE c

\* str.lower
Lower(s) == [i \in 1..Len(s) |-> LowerChar(s[i])]

\* str.endswith(suffix)
EndsWith(s, suf) ==
    /\ Len(suf) <= Len(s)
    /\ SubSeq(s, Len(s) - Len(suf) + 1, Len(s)) = suf

Whitespace == {" ", "\n", "\t"}

\* str.strip: leading and trailing whitespace removed.
RECURSIVE LStrip(_)
LStrip(s) ==
    IF s # <<>> /\ Head(s) \in Whitespace THEN LStrip(Tail(s)) ELSE s

RECURSIVE RStrip(_)
RStrip(s) ==
    IF s # <<>> /\ s[Len(s)] \in Whitespace
    THEN RStrip(SubSeq(s, 1, Len(s) - 1)) ELSE s

Strip(s) == RStrip(LStrip(s))

RECURSIVE JoinMutantNoSpace(_)
JoinMutantNoSpace(items) ==
    IF items = <<>> THEN <<>> ELSE items[1] \o JoinMutantNoSpace(Tail(items))

\* " ".join(items)
RECURSIVE JoinSpace(_)
JoinSpace(items) ==
    IF items = <<>> THEN <<>>
    ELSE IF Len(items) = 1 THEN items[1]
    ELSE items[1] \o <<" ">> \o JoinSpace(Tail(items))

\* ------------------------------------------------------------ exceptions
NoErr == [type |-> "", status |-> 0, detail |-> <<>>]
\* An exception raised by a library or by the operating system.
LibError(msg) == [type |-> "Exception", status |-> 0, detail |-> <<msg>>]
ValueError(msg) == [type |-> "ValueError", status |-> 0, detail |-> <<msg>>]
HTTPException(status, detail) ==
    [type |-> "HTTPException", status |-> status, detail |-> detail]

\* str(e).  An HTTPException is built with keyword arguments, so its args
\* are empty: str() gives "" unless the class defines __str__ (as
\* "<status>: <detail>"), which depends on the installed Starlette.
str_exc(e) ==
    IF e.type = "HTTPException"
    THEN IF http_exc_str = "status_detail"
         THEN <<ToString(e.status), ": ">> \o e.detail
         ELSE <<>>
    ELSE e.detail

\* The outcome of a call that returns text: returned or raised.
Ret(t) == [ok |-> TRUE, text |-> t, err |-> NoErr]
Raise(e) == [ok |-> FALSE, text |-> <<>>, err |-> e]

\* The answer of a handler: the response record or the error.
Answer(resp) == [ok |-> TRUE, body |-> Some(resp), err |-> NoErr]
Failure(e) == [ok |-> FALSE, body |-> None, err |-> e]

\* ------------------------------------------------- extract_video_id (71-77)
Digits == {"0", "1", "2", "3", "4", "5", "6", "7", "8", "9"}
LowerLetters ==
    {"a", "b", "c", "d", "e", "f", "g", "h", "i", "j", "k", "l", "m",
     "n", "o", "p", "q", "r", "s", "t", "u", "v", "w", "x", "y", "z"}
UpperLetters ==
    {"A", "B", "C", "D", "E", "F", "G", "H", "I", "J", "K", "L", "M",
     "N", "O", "P", "Q", "R", "S", "T", "U", "V", "W", "X", "Y", "Z"}
\* The class [0-9A-Za-z_-] of the pattern.
IdChars == Digits \cup LowerLetters \cup UpperLetters \cup {"_", "-"}

\* Where group 1 starts when (?:v=|\/) matches at position i, else 0.
GroupStart(s, i) ==
    IF s[i] = "v" /\ i + 1 <= Len(s) /\ s[i + 1] = "="
    THEN i + 2
    ELSE IF s[i] = "/" THEN i + 1 ELSE 0

\* The pattern (?:v=|\/)([0-9A-Za-z_-]{11}).* matches at position i.
PatternMatchesAt(s, i) ==
    LET g == GroupStart(s, i)
    IN  /\ g > 0
        /\ g + IdLen - 1 <= Len(s)
        /\ \A k \in g..(g + IdLen - 1) : s[k] \in IdChars

\* re.search: the leftmost position where the pattern matches, 0 if none.
re_search(s) ==
    LET hits == {i \in 1..Len(s) : PatternMatchesAt(s, i)}
    IN  IF hits = {} THEN 0
        ELSE CHOOSE i \in hits : \A j \in hits : i <= j

extract_video_id(url) ==
    LET i == re_search(url)
    IN  IF i > 0
        THEN Ret(SubSeq(url, GroupStart(url, i), GroupStart(url, i) + IdLen - 1))
        ELSE Raise(ValueError("Invalid YouTube URL"))

\* f"https://www.youtube.com/watch?v={video_id}"
WatchUrl(video_id) == <<"https://www.youtube.com/watch?v=">> \o video_id

\* ------------------------------------------------------ files and paths
NoPath == [n |-> 0, suffix |-> <<>>]

RECURSIVE LastIndexOf(_, _)
\* str.rfind of one character, 0 when absent.
LastIndexOf(s, c) ==
    IF s = <<>> THEN 0
    ELSE IF s[Len(s)] = c THEN Len(s)
    ELSE LastIndexOf(SubSeq(s, 1, Len(s) - 1), c)

\* os.path.splitext(p)[1]: from the last dot of the last path component,
\* unless only dots precede it in that component.
splitext_ext(p) ==
    LET sep == LastIndexOf(p, "/")
        dot == LastIndexOf(p, ".")
    IN  IF dot > sep /\ \E k \in (sep + 1)..(dot - 1) : p[k] # "."
        THEN SubSeq(p, dot, Len(p))
        ELSE <<>>

\* The tuple of suffixes summarize_uploaded_video accepts (line 287).
AcceptedExtensions ==
    { <<".", "m", "p", "4">>, <<".", "a", "v", "i">>,
      <<".", "m", "o", "v">>, <<".", "m", "k", "v">> }

SupportedMutantNoDot(filename) ==
    \E e \in AcceptedExtensions : EndsWith(Lower(filename), Tail(e))

\* file.filename.lower().endswith(('.mp4', '.avi', '.mov', '.mkv'))
supported_format(filename) ==
    \E e \in AcceptedExtensions : EndsWith(Lower(filename), e)

MktempMutantNoCheck(suffix) == { [n |-> 1, suffix |-> suffix] }

\* tempfile.mktemp(suffix): a random name with the suffix, of a path that
\* does not exist when it is drawn; none when every name is taken.  Names
\* are only ever compared for equality, so the free names are
\* interchangeable and the model draws the first of them.
mktemp_names(suffix) ==
    LET free == {p \in [n : 1..NumTempNames, suffix : {suffix}] : p \notin fs}
    IN  {p \in free : \A q \in free : p.n <= q.n}

\* ----------------------------------------------- analyze_sentiment (127-145)
\* Scores are in hundredths.
PosThreshold == 5
NegThreshold == -5

OverallMutantStrict(compound) ==
    IF compound > PosThreshold THEN "positive"
    ELSE IF compound < NegThreshold THEN "negative"
    ELSE "neutral"

overall_label(compound) ==
    IF compound >= PosThreshold THEN "positive"
    ELSE IF compound <= NegThreshold THEN "negative"
    ELSE "neutral"

analyze_sentiment(scores) ==
    [overall |-> overall_label(scores.compound),
     positive |-> scores.pos,
     negative |-> scores.neg,
     neutral |-> scores.neu,
     compound |-> scores.compound]

\* ------------------------------------------------ extract_keywords (147-165)
\* \w of the pattern, over the model's alphabet.
WordChars == Digits \cup LowerLetters \cup UpperLetters \cup {"_"}
Letters == LowerLetters \cup UpperLetters

RECURSIVE WordRuns(_, _)
\* The maximal runs of \w characters of s, in order (cur is the run being
\* read).
WordRuns(s, cur) ==
    IF s = <<>> THEN (IF cur = <<>> THEN <<>> ELSE <<cur>>)
    ELSE IF Head(s) \in WordChars THEN WordRuns(Tail(s), Append(cur, Head(s)))
    ELSE (IF cur = <<>> THEN <<>> ELSE <<cur>>) \o WordRuns(Tail(s), <<>>)

\* re.findall(r'\b[a-zA-Z]{4,}\b', text): a match is a whole run of \w
\* characters, all of them letters, at least MinWordLen long.
findall_words(text) ==
    SelectSeq(WordRuns(text, <<>>),
              LAMBDA w : Len(w) >= MinWordLen /\ \A i \in 1..Len(w) : w[i] \in Letters)

StopWords ==
    { <<"t","h","i","s">>, <<"t","h","a","t">>, <<"w","i","t","h">>,
      <<"h","a","v","e">>, <<"w","i","l","l">>, <<"f","r","o","m">>,
      <<"t","h","e","y">>, <<"b","e","e","n">>, <<"w","e","r","e">>,
      <<"s","a","i","d">>, <<"e","a","c","h">>, <<"w","h","i","c","h">>,
      <<"t","h","e","i","r">>, <<"t","i","m","e">>, <<"a","b","o","u","t">>,
      <<"w","o","u","l","d">>, <<"t","h","e","r","e">>, <<"c","o","u","l","d">>,
      <<"o","t","h","e","r">>, <<"m","o","r","e">>, <<"v","e","r","y">>,
      <<"w","h","a","t">>, <<"k","n","o","w">>, <<"j","u","s","t">> }

FilteredMutantAtLeast(words) ==
    SelectSeq(words, LAMBDA w : w \notin StopWords /\ Len(w) >= MinKeywordExcl)

\* [word for word in words if word not in stop_words and len(word) > 4]
filtered_words(words) ==
    SelectSeq(words, LAMBDA w : w \notin StopWords /\ Len(w) > MinKeywordExcl)

\* The number of occurrences of w in the list ws.
Count(ws, w) == Cardinality({i \in 1..Len(ws) : ws[i] = w})

RECURSIVE Distinct(_, _)
\* The keys of collections.Counter(ws), in insertion order.
Distinct(ws, seen) ==
    IF ws = <<>> THEN <<>>
    ELSE IF Head(ws) \in seen THEN Distinct(Tail(ws), seen)
    ELSE <<Head(ws)>> \o Distinct(Tail(ws), seen \cup {Head(ws)})

RECURSIVE MostCommon(_, _, _)
\* Counter.most_common(n): by descending count, ties in insertion order.
MostCommon(keys, ws, n) ==
    IF n = 0 \/ keys = <<>> THEN <<>>
    ELSE LET best == CHOOSE i \in 1..Len(keys) :
                       /\ \A j \in 1..Len(keys) :
                            Count(ws, keys[j]) <= Count(ws, keys[i])
                       /\ \A j \in 1..(i - 1) :
                            Count(ws, keys[j]) < Count(ws, keys[i])
             rest == [j \in 1..(Len(keys) - 1) |->
                        IF j < best THEN keys[j] ELSE keys[j + 1]]
         IN  <<keys[best]>> \o MostCommon(rest, ws, n - 1)

extract_keywords(text) ==
    LET fw == filtered_words(findall_words(Lower(text)))
    IN  MostCommon(Distinct(fw, {}), fw, TopKeywords)

\* ------------------------------------------------------------- requests
Slots == 1..NumSlots

\* The argument of extract_audio_transcript: a URL or a local path.
NoMedia == [kind |-> "", url |-> <<>>, path |-> NoPath]
MediaUrl(u) == [kind |-> "url", url |-> u, path |-> NoPath]
MediaFile(p) == [kind |-> "file", url |-> <<>>, path |-> p]

\* A slot no request has used: the locals of a handler before it starts.
\* trace, raised, fb_calls, fb_result, acq_result, primary_error, captions,
\* llm_inputs, summary_result, created and appended record what the handler
\* did; the code does not read them.
IdleReq ==
    [pc |-> "idle", rid |-> 0, kind |-> "none",
     url |-> None, include_sentiment |-> FALSE,
     filename |-> <<>>, file_size |-> 0, content_type |-> "",
     video_id |-> <<>>, metadata |-> None, transcript |-> <<>>,
     summary |-> <<>>, sentiment |-> None, keywords |-> <<>>,
     temp_path |-> NoPath, audio_path |-> NoPath, video_path |-> NoMedia,
     content_len |-> 0, fb_text |-> <<>>, response |-> None, result |-> None,
     trace |-> <<>>, raised |-> <<>>, fb_calls |-> 0, fb_result |-> None,
     acq_result |-> None, primary_error |-> None, captions |-> None,
     llm_inputs |-> <<>>, summary_result |-> None,
     created |-> {}, appended |-> <<>>]

\* The handler enters a stage.
Log(rec, stage) == [rec EXCEPT !.trace = Append(@, stage)]

\* The call of a stage raised an exception.
Raised(rec, stage) == [rec EXCEPT !.raised = Append(@, stage)]

\* The handler ends (pc "done"): the caller gets the answer.
Done(rec, answer) == [rec EXCEPT !.pc = "done", !.result = Some(answer)]

\* ------------------------------------------------------ inputs, providers
BadUrl == <<"/", "w", "?">>
GoodUrl == <<"/", "w", "?", "v", "=">> \o Repeat("a", IdLen)
UrlInputs == {None, Some(BadUrl), Some(GoodUrl)}

FilenameInputs ==
    { <<"a", ".", "M", "p", "4">>, <<"a", ".", "t", "x", "t">>,
      <<"m", "p", "4">> }
FileSizeInputs == {7}

\* What pytube gives for a video: the attributes, or an exception.
MetadataOutcomes ==
    { [ok |-> TRUE, err |-> NoErr,
       data |-> [title |-> "T", author |-> "A", length |-> 10, views |-> 5,
                 thumbnail_url |-> "thumb", publish_date |-> d]]
      : d \in {Some("2020-01-01")} }
    \cup { [ok |-> FALSE, err |-> LibError("video unavailable"),
            data |-> [title |-> "", author |-> "", length |-> 0, views |-> 0,
                      thumbnail_url |-> "", publish_date |-> None]] }

Hello == <<"H", "e", "l", "l", "o">>
World == <<"w", "o", "r", "l", "d", ".">>

\* What YouTubeTranscriptApi.get_transcript gives: the texts of the
\* fragments, or an exception.
CaptionOutcomes ==
    { [ok |-> TRUE, items |-> i, err |-> NoErr]
      : i \in { <<>>, <<Hello, World>> } }
    \cup { [ok |-> FALSE, items |-> <<>>, err |-> LibError("captions disabled")] }

\* What recognize_google gives: the text, or an exception (the library
\* raises UnknownValueError when it recognizes nothing).
SpeechOutcomes ==
    { Ret(<<"s", "p", "e", "e", "c", "h">>),
      Raise(LibError("speech unintelligible")) }

\* What chain.run gives: the generated text, or an exception.
LlmOutcomes ==
    { Ret(<<" ", "-", " ", "o", "k", "\n">>), Ret(<<" ", "\n">>),
      Raise(LibError("rate limit")) }

\* What polarity_scores gives, in hundredths.
PolarityScores ==
    { [pos |-> 60, neg |-> 0, neu |-> 40, compound |-> 5] }


\* ------------------------------------------------------------ scheduling
\* The event loop is running the handler of slot r, which is at pc.
Running(r, pc) == loop_owner = r /\ req[r].pc = pc

\* The handler of slot r goes on with the locals rec.  When it has ended
\* the loop and the slot are free again, and returned holds its locals
\* until the next step.
Becomes(r, rec) ==
    /\ req' = [req EXCEPT ![r] = IF rec.pc = "done" THEN IdleReq ELSE rec]
    /\ returned' = IF rec.pc = "done" THEN Some(rec) ELSE None
    /\ loop_owner' = IF rec.pc = "done" THEN 0 ELSE r

\* A request is received into the first free slot when the loop is free.
CanReceive(r) ==
    /\ loop_owner = 0
    /\ started < MaxRequests
    /\ req[r].pc = "idle"
    /\ \A q \in Slots : q < r => req[q].pc # "idle"

\* ------------------------------------------------------ exception handlers
\* except Exception as e: raise HTTPException(status_code=500, detail=str(e))
summarize_video_except(e) == HTTPException(500, str_exc(e))
summarize_uploaded_video_except(e) == HTTPException(500, str_exc(e))

\* The handler whose try block the exception e reaches.
handler_except(rec, e) ==
    IF rec.kind = "url" THEN summarize_video_except(e)
    ELSE summarize_uploaded_video_except(e)

\* extract_audio_transcript raises (line 125) on the exception e0 of its try
\* block; neither extract_youtube_transcript's except clause, which it was
\* called from, nor anything else before the handler's catches it.
extract_audio_transcript_except(rec, e0) ==
    LET e == HTTPException(400, <<"Error extracting transcript: ">> \o str_exc(e0))
    IN  Done([Raised(rec, "fallback") EXCEPT
                !.fb_result = Some(Raise(e)),
                !.acq_result = IF rec.kind = "url" THEN Some(Raise(e)) ELSE @],
             Failure(handler_except(rec, e)))

\* ------------------------------------------------ summarize_video (227-275)
\* POST /summarize: the handler starts.
receive_summarize(r) ==
    /\ CanReceive(r)
    /\ \E u \in UrlInputs, inc \in BOOLEAN :
         req' = [req EXCEPT ![r] =
                   [IdleReq EXCEPT !.pc = "sv_check_url", !.rid = started + 1,
                                   !.kind = "url", !.url = u,
                                   !.include_sentiment = inc]]
    /\ started' = started + 1
    /\ loop_owner' = r
    /\ returned' = None
    /\ UNCHANGED <<summary_storage, fs, open_videos, uuid_count, issued, clock,
                   http_exc_str, locator, extracted, call, outcome, launcher>>
    /\ reply' = None

\* if not request.url: raise HTTPException(400, "URL is required")
sv_check_url(r) ==
    /\ Running(r, "sv_check_url")
    /\ Becomes(r, IF req[r].url = None \/ req[r].url = Some(<<>>)
                  THEN Done(req[r], Failure(HTTPException(400, <<"URL is required">>)))
                  ELSE [req[r] EXCEPT !.pc = "sv_extract_id"])
    /\ UNCHANGED <<summary_storage, fs, open_videos, started, uuid_count, issued,
                   clock, http_exc_str, locator, extracted, call, outcome, launcher>>
    /\ reply' = None

\* video_id = extract_video_id(request.url)
sv_extract_id(r) ==
    /\ Running(r, "sv_extract_id")
    /\ LET res == extract_video_id(Get(req[r].url))
       IN  Becomes(r, IF res.ok
                      THEN [Log(req[r], "extract_id") EXCEPT
                              !.pc = "sv_metadata", !.video_id = res.text]
                      ELSE Done(Raised(Log(req[r], "extract_id"), "extract_id"),
                                Failure(summarize_video_except(res.err))))
    /\ UNCHANGED <<summary_storage, fs, open_videos, started, uuid_count, issued,
                   clock, http_exc_str, locator, extracted, call, outcome, launcher>>
    /\ reply' = None

MetadataMutantSwallow(r) ==
    /\ Running(r, "sv_metadata")
    /\ \E o \in MetadataOutcomes :
         Becomes(r, [(IF o.ok THEN Log(req[r], "metadata")
                      ELSE Raised(Log(req[r], "metadata"), "metadata")) EXCEPT
                       !.pc = "yt_captions", !.metadata = Some(o.data)])
    /\ UNCHANGED <<summary_storage, fs, open_videos, started, uuid_count, issued,
                   clock, http_exc_str, locator, extracted, call, outcome, launcher>>
    /\ reply' = None

\* metadata = get_video_metadata(video_id) (79-92)
get_video_metadata(r) ==
    /\ Running(r, "sv_metadata")
    /\ \E o \in MetadataOutcomes :
         Becomes(r, IF o.ok
                    THEN [Log(req[r], "metadata") EXCEPT
                            !.pc = "yt_captions",
                            !.metadata =
                               Some([title |-> o.data.title,
                                     author |-> o.data.author,
                                     length |-> o.data.length,
                                     views |-> o.data.views,
                                     thumbnail |-> o.data.thumbnail_url,
                                     publish_date |-> o.data.publish_date])]
                    ELSE Done(Raised(Log(req[r], "metadata"), "metadata"),
                              Failure(summarize_video_except(
                                HTTPException(400, <<"Error fetching metadata: ">>
                                                     \o str_exc(o.err))))))
    /\ UNCHANGED <<summary_storage, fs, open_videos, started, uuid_count, issued,
                   clock, http_exc_str, locator, extracted, call, outcome, launcher>>
    /\ reply' = None

TranscriptMutantNoFallback(r) ==
    /\ Running(r, "yt_captions")
    /\ \E o \in CaptionOutcomes :
         Becomes(r, IF o.ok
                    THEN [Log(req[r], "captions") EXCEPT
                            !.pc = "sv_summarize",
                            !.transcript = JoinSpace(o.items),
                            !.captions = Some(o.items),
                            !.acq_result = Some(Ret(JoinSpace(o.items)))]
                    ELSE Done([Raised(Log(req[r], "captions"), "captions") EXCEPT
                                 !.primary_error = Some(o.err),
                                 !.acq_result = Some(Raise(o.err))],
                              Failure(summarize_video_except(o.err))))
    /\ UNCHANGED <<summary_storage, fs, open_videos, started, uuid_count, issued,
                   clock, http_exc_str, locator, extracted, call, outcome, launcher>>
    /\ reply' = None

TranscriptMutantAlwaysFallback(r) ==
    /\ Running(r, "yt_captions")
    /\ \E o \in CaptionOutcomes :
         Becomes(r, [(IF o.ok THEN Log(req[r], "captions")
                      ELSE Raised(Log(req[r], "captions"), "captions")) EXCEPT
                       !.pc = "fb_open",
                       !.captions = IF o.ok THEN Some(o.items) ELSE @,
                       !.primary_error = IF o.ok THEN @ ELSE Some(o.err),
                       !.fb_calls = @ + 1,
                       !.video_path = MediaUrl(WatchUrl(req[r].video_id))])
    /\ UNCHANGED <<summary_storage, fs, open_videos, started, uuid_count, issued,
                   clock, http_exc_str, locator, extracted, call, outcome, launcher>>
    /\ reply' = None

\* transcript = extract_youtube_transcript(video_id) (94-103): the captions,
\* or on any exception the call of extract_audio_transcript on the watch URL.
extract_youtube_transcript(r) ==
    /\ Running(r, "yt_captions")
    /\ \E o \in CaptionOutcomes :
         Becomes(r, IF o.ok
                    THEN [Log(req[r], "captions") EXCEPT
                            !.pc = "sv_summarize",
                            !.transcript = JoinSpace(o.items),
                            !.captions = Some(o.items),
                            !.acq_result = Some(Ret(JoinSpace(o.items)))]
                    ELSE [Raised(Log(req[r], "captions"), "captions") EXCEPT
                            !.pc = "fb_open",
                            !.primary_error = Some(o.err),
                            !.fb_calls = @ + 1,
                            !.video_path = MediaUrl(WatchUrl(req[r].video_id))])
    /\ UNCHANGED <<summary_storage, fs, open_videos, started, uuid_count, issued,
                   clock, http_exc_str, locator, extracted, call, outcome, launcher>>
    /\ reply' = None

\* --------------------------------------- extract_audio_transcript (105-125)
\* video = VideoFileClip(video_path)
fb_open(r) ==
    /\ Running(r, "fb_open")
    /\ \E ok \in BOOLEAN :
         /\ Becomes(r, IF ok
                       THEN [Log(req[r], "fallback") EXCEPT !.pc = "fb_mktemp"]
                       ELSE extract_audio_transcript_except(
                              Log(req[r], "fallback"), LibError("cannot open media")))
         /\ open_videos' = IF ok THEN open_videos \cup {req[r].rid}
                           ELSE open_videos
    /\ UNCHANGED <<summary_storage, fs, started, uuid_count, issued, clock,
                   http_exc_str, locator, extracted, call, outcome, launcher>>
    /\ reply' = None

\* audio_path = tempfile.mktemp(suffix=".wav")
fb_mktemp(r) ==
    /\ Running(r, "fb_mktemp")
    /\ LET names == mktemp_names(<<".", "w", "a", "v">>)
       IN  IF names = {}
           THEN Becomes(r, extract_audio_transcript_except(
                             req[r], LibError("No usable temporary filename found")))
           ELSE \E p \in names :
                  Becomes(r, [req[r] EXCEPT !.pc = "fb_write", !.audio_path = p])
    /\ UNCHANGED <<summary_storage, fs, open_videos, started, uuid_count, issued,
                   clock, http_exc_str, locator, extracted, call, outcome, launcher>>
    /\ reply' = None

\* video.audio.write_audiofile(audio_path, ...): video.audio is None when
\* the media has no audio track; a failed write may leave a partial file.
fb_write(r) ==
    /\ Running(r, "fb_write")
    /\ \E o \in {"written", "no_audio", "failed", "failed_partial"} :
         /\ Becomes(r,
              IF o = "written"
              THEN [req[r] EXCEPT !.pc = "fb_recognize",
                                  !.created = @ \cup {req[r].audio_path}]
              ELSE IF o = "no_audio"
              THEN extract_audio_transcript_except(
                     req[r], LibError("no audio track"))
              ELSE extract_audio_transcript_except(
                     [req[r] EXCEPT !.created =
                          IF o = "failed_partial"
                          THEN @ \cup {req[r].audio_path} ELSE @],
                     LibError("cannot write audio")))
         /\ fs' = IF o \in {"written", "failed_partial"}
                  THEN fs \cup {req[r].audio_path} ELSE fs
    /\ UNCHANGED <<summary_storage, open_videos, started, uuid_count, issued, clock,
                   http_exc_str, locator, extracted, call, outcome, launcher>>
    /\ reply' = None

\* with sr.AudioFile(audio_path) as source: ... recognize_google(audio)
fb_recognize(r) ==
    /\ Running(r, "fb_recognize")
    /\ IF req[r].audio_path \notin fs
       THEN Becomes(r, extract_audio_transcript_except(
                         req[r], LibError("No such file or directory")))
       ELSE \E o \in SpeechOutcomes :
              Becomes(r, IF o.ok
                         THEN [req[r] EXCEPT !.pc = "fb_remove", !.fb_text = o.text]
                         ELSE extract_audio_transcript_except(req[r], o.err))
    /\ UNCHANGED <<summary_storage, fs, open_videos, started, uuid_count, issued,
                   clock, http_exc_str, locator, extracted, call, outcome, launcher>>
    /\ reply' = None

\* os.remove(path) can succeed only on a path that exists.
os_remove_outcomes(path) == IF path \in fs THEN {TRUE, FALSE} ELSE {FALSE}

\* os.remove(audio_path)
fb_remove(r) ==
    /\ Running(r, "fb_remove")
    /\ \E ok \in os_remove_outcomes(req[r].audio_path) :
         /\ Becomes(r, IF ok THEN [req[r] EXCEPT !.pc = "fb_close"]
                       ELSE extract_audio_transcript_except(
                              req[r], LibError("cannot remove file")))
         /\ fs' = IF ok THEN fs \ {req[r].audio_path} ELSE fs
    /\ UNCHANGED <<summary_storage, open_videos, started, uuid_count, issued, clock,
                   http_exc_str, locator, extracted, call, outcome, launcher>>
    /\ reply' = None

\* video.close(); return transcript: back in the caller, whose transcript
\* it becomes.
fb_close(r) ==
    /\ Running(r, "fb_close")
    /\ open_videos' = open_videos \ {req[r].rid}
    /\ Becomes(r, [req[r] EXCEPT
                     !.pc = IF req[r].kind = "url" THEN "sv_summarize"
                            ELSE "up_summarize",
                     !.fb_result = Some(Ret(req[r].fb_text)),
                     !.acq_result = IF req[r].kind = "url"
                                    THEN Some(Ret(req[r].fb_text)) ELSE @,
                     !.transcript = req[r].fb_text])
    /\ UNCHANGED <<summary_storage, fs, started, uuid_count, issued, clock,
                   http_exc_str, locator, extracted, call, outcome, launcher>>
    /\ reply' = None

\* ---------------------------------------------- get_summary_prompt (167-196)
\* A prompt is a sequence of pieces: the braces "{" and "}" one by one, and
\* runs of other characters (a piece never holds a brace inside it).
format_instructions ==
    [bullet_points |-> "Provide the summary in clear bullet points",
     narrative |-> "Write the summary as a flowing narrative story",
     markdown |->
       "Format the summary using markdown with appropriate headings and structure"]

length_instructions ==
    [short |-> "Keep the summary concise, around 100-150 words",
     medium |-> "Provide a comprehensive summary of 200-300 words",
     long |-> "Create a detailed summary of 400-500 words"]

DictGetMutantNoDefault(d, key, default) ==
    IF key \in DOMAIN d THEN d[key] ELSE ""

\* d.get(key, default)
dict_get(d, key, default) == IF key \in DOMAIN d THEN d[key] ELSE default

\* The f-string of lines 182-194: {{transcript}} gives the three pieces
\* "{", "transcript", "}", and language is inserted as it is.
get_summary_prompt(format_type, length, language) ==
    << "\n    Please summarize the following video transcript. \n    \n    Format: ",
       dict_get(format_instructions, format_type, format_instructions["bullet_points"]),
       "\n    Length: ",
       dict_get(length_instructions, length, length_instructions["medium"]),
       "\n    Language: Please provide the summary in " >>
    \o language
    \o << "\n    \n    Focus on the main topics, key insights, and important information covered in the video.\n    \n    Transcript: ",
          "{", "transcript", "}",
          "\n    \n    Summary:\n    " >>

\* The position of the first "}" of t at or after i, 0 when there is none.
RECURSIVE FindClose(_, _)
FindClose(t, i) ==
    IF i > Len(t) THEN 0
    ELSE IF t[i] = "}" THEN i
    ELSE FindClose(t, i + 1)

\* prompt_template.format(transcript=transcript), as str.format reads a
\* template from left to right: "{{" and "}}" are the braces themselves,
\* "{name}" is replaced by the argument of that name, which only
\* "transcript" has, and any other brace is an error.  The constructor of
\* PromptTemplate, where it validates the template, formats it the same way
\* with a placeholder argument, so it raises for the same templates.
RECURSIVE format_template(_, _)
format_template(t, transcript) ==
    IF t = <<>> THEN Ret(<<>>)
    ELSE IF Head(t) = "{" /\ Len(t) >= 2 /\ t[2] = "{"
    THEN LET rest == format_template(SubSeq(t, 3, Len(t)), transcript)
         IN  IF rest.ok THEN Ret(<<"{">> \o rest.text) ELSE rest
    ELSE IF Head(t) = "}" /\ Len(t) >= 2 /\ t[2] = "}"
    THEN LET rest == format_template(SubSeq(t, 3, Len(t)), transcript)
         IN  IF rest.ok THEN Ret(<<"}">> \o rest.text) ELSE rest
    ELSE IF Head(t) = "}"
    THEN Raise(ValueError("Single '}' encountered in format string"))
    ELSE IF Head(t) = "{"
    THEN LET close == FindClose(t, 2)
         IN  IF close = 0
             THEN Raise(ValueError("expected '}' before end of string"))
             ELSE IF "{" \in Range(SubSeq(t, 2, close - 1))
             THEN Raise(ValueError("unexpected '{' in field name"))
             ELSE IF SubSeq(t, 2, close - 1) # <<"transcript">>
             THEN Raise(LibError("KeyError"))
             ELSE LET rest == format_template(SubSeq(t, close + 1, Len(t)), transcript)
                  IN  IF rest.ok THEN Ret(transcript \o rest.text) ELSE rest
    ELSE LET rest == format_template(Tail(t), transcript)
         IN  IF rest.ok THEN Ret(<<Head(t)>> \o rest.text) ELSE rest

\* The options a request has when it names none (SummaryRequest, 56-58).
DefaultFormat == "bullet_points"
DefaultLength == "medium"
DefaultLanguage == <<"english">>

\* ------------------------------------------------ generate_summary (198-224)
LlmInputMutantTruncate(transcript, format_type, length, language) ==
    format_template(get_summary_prompt(format_type, length, language),
                    SubSeq(transcript, 1, Len(transcript) - 1))

\* What chain.run is called with: the formatted prompt, or the exception of
\* building or formatting the template.
llm_input(transcript, format_type, length, language) ==
    format_template(get_summary_prompt(format_type, length, language), transcript)

\* The trimmed text of the provider's answer o, or HTTPException(500) on any
\* exception of the try block.
generate_summary(transcript, format_type, length, language, o) ==
    LET prompt == llm_input(transcript, format_type, length, language)
    IN  IF ~prompt.ok
        THEN Raise(HTTPException(500, <<"Error generating summary: ">>
                                        \o str_exc(prompt.err)))
        ELSE IF o.ok THEN Ret(Strip(o.text))
        ELSE Raise(HTTPException(500, <<"Error generating summary: ">>
                                        \o str_exc(o.err)))

\* summary = generate_summary(transcript, ...), at pc, going on to next.
summarize_step(r, pc, next) ==
    /\ Running(r, pc)
    /\ \E o \in LlmOutcomes :
         LET prompt == llm_input(req[r].transcript, DefaultFormat, DefaultLength,
                                 DefaultLanguage)
             res == generate_summary(req[r].transcript, DefaultFormat,
                                     DefaultLength, DefaultLanguage, o)
             rec == [Log(req[r], "summarize") EXCEPT
                       !.llm_inputs = IF prompt.ok THEN Append(@, prompt.text) ELSE @,
                       !.summary_result = Some(res)]
         IN  Becomes(r, IF res.ok
                        THEN [rec EXCEPT !.pc = next, !.summary = res.text]
                        ELSE Done(Raised(rec, "summarize"),
                                  Failure(handler_except(req[r], res.err))))
    /\ UNCHANGED <<summary_storage, fs, open_videos, started, uuid_count, issued,
                   clock, http_exc_str, locator, extracted, call, outcome, launcher>>
    /\ reply' = None

SentimentMutantAlways(r, pc, next) ==
    /\ Running(r, pc)
    /\ \E sc \in PolarityScores :
         Becomes(r, [Log(req[r], "sentiment") EXCEPT
                       !.pc = next, !.sentiment = Some(analyze_sentiment(sc))])
    /\ UNCHANGED <<summary_storage, fs, open_videos, started, uuid_count, issued,
                   clock, http_exc_str, locator, extracted, call, outcome, launcher>>
    /\ reply' = None

\* sentiment = None; if include_sentiment: sentiment = analyze_sentiment(...)
sentiment_step(r, pc, next) ==
    /\ Running(r, pc)
    /\ IF req[r].include_sentiment
       THEN \E sc \in PolarityScores :
              Becomes(r, [Log(req[r], "sentiment") EXCEPT
                            !.pc = next,
                            !.sentiment = Some(analyze_sentiment(sc))])
       ELSE Becomes(r, [req[r] EXCEPT !.pc = next, !.sentiment = None])
    /\ UNCHANGED <<summary_storage, fs, open_videos, started, uuid_count, issued,
                   clock, http_exc_str, locator, extracted, call, outcome, launcher>>
    /\ reply' = None

\* keywords = extract_keywords(transcript)
keywords_step(r, pc, next) ==
    /\ Running(r, pc)
    /\ Becomes(r, [Log(req[r], "keywords") EXCEPT
                     !.pc = next,
                     !.keywords = extract_keywords(req[r].transcript)])
    /\ UNCHANGED <<summary_storage, fs, open_videos, started, uuid_count, issued,
                   clock, http_exc_str, locator, extracted, call, outcome, launcher>>
    /\ reply' = None

Uuid4MutantFromLength == Len(summary_storage) + 1

\* str(uuid.uuid4()): a token uuid4 has not returned before (ids are
\* numbered in the order they are drawn).
uuid4 == uuid_count + 1

\* datetime.now().isoformat(): readings are numbered.
datetime_now == clock + 1

\* response = SummaryResponse(id=..., ..., timestamp=...), with the
\* handler's metadata.
respond_step(r, pc, next, metadata) ==
    /\ Running(r, pc)
    /\ Becomes(r, [Log(req[r], "respond") EXCEPT
                     !.pc = next,
                     !.response =
                        Some([id |-> uuid4,
                              summary |-> req[r].summary,
                              metadata |-> metadata,
                              transcript |-> req[r].transcript,
                              sentiment |-> req[r].sentiment,
                              keywords |-> Some(req[r].keywords),
                              timestamp |-> datetime_now])])
    /\ uuid_count' = uuid_count + 1
    /\ issued' = Append(issued, uuid4)
    /\ clock' = clock + 1
    /\ UNCHANGED <<summary_storage, fs, open_videos, started, http_exc_str,
                   locator, extracted, call, outcome, launcher>>
    /\ reply' = None

\* summary_storage.append(response.dict())
store_step(r, pc, next) ==
    /\ Running(r, pc)
    /\ summary_storage' = Append(summary_storage, Get(req[r].response))
    /\ Becomes(r, [Log(req[r], "store") EXCEPT
                     !.pc = next,
                     !.appended = Append(@, Get(req[r].response))])
    /\ UNCHANGED <<fs, open_videos, started, uuid_count, issued, clock, http_exc_str,
                   locator, extracted, call, outcome, launcher>>
    /\ reply' = None

\* return response
return_step(r, pc) ==
    /\ Running(r, pc)
    /\ Becomes(r, Done(req[r], Answer(Get(req[r].response))))
    /\ UNCHANGED <<summary_storage, fs, open_videos, started, uuid_count, issued,
                   clock, http_exc_str, locator, extracted, call, outcome, launcher>>
    /\ reply' = None

sv_summarize(r) == summarize_step(r, "sv_summarize", "sv_sentiment")
sv_sentiment(r) == sentiment_step(r, "sv_sentiment", "sv_keywords")
sv_keywords(r) == keywords_step(r, "sv_keywords", "sv_respond")
sv_respond(r) == respond_step(r, "sv_respond", "sv_store", Get(req[r].metadata))
sv_store(r) == store_step(r, "sv_store", "sv_return")
sv_return(r) == return_step(r, "sv_return")

\* --------------------------------------- summarize_uploaded_video (277-339)
\* POST /summarize/upload: the handler starts.
receive_upload(r) ==
    /\ CanReceive(r)
    /\ \E fn \in FilenameInputs, size \in FileSizeInputs, inc \in BOOLEAN :
         req' = [req EXCEPT ![r] =
                   [IdleReq EXCEPT !.pc = "up_check_format",
                                   !.rid = started + 1, !.kind = "upload",
                                   !.filename = fn, !.file_size = size,
                                   !.content_type = "video/mp4",
                                   !.include_sentiment = inc]]
    /\ started' = started + 1
    /\ loop_owner' = r
    /\ returned' = None
    /\ UNCHANGED <<summary_storage, fs, open_videos, uuid_count, issued, clock,
                   http_exc_str, locator, extracted, call, outcome, launcher>>
    /\ reply' = None

\* if not file.filename.lower().endswith(...): raise HTTPException(400, ...)
up_check_format(r) ==
    /\ Running(r, "up_check_format")
    /\ Becomes(r, IF ~supported_format(req[r].filename)
                  THEN Done(req[r], Failure(HTTPException(400, <<"Unsupported file format">>)))
                  ELSE [req[r] EXCEPT !.pc = "up_mktemp"])
    /\ UNCHANGED <<summary_storage, fs, open_videos, started, uuid_count, issued,
                   clock, http_exc_str, locator, extracted, call, outcome, launcher>>
    /\ reply' = None

\* temp_path = tempfile.mktemp(suffix=os.path.splitext(file.filename)[1])
up_mktemp(r) ==
    /\ Running(r, "up_mktemp")
    /\ LET names == mktemp_names(splitext_ext(req[r].filename))
       IN  IF names = {}
           THEN Becomes(r, Done(Raised(Log(req[r], "mktemp"), "mktemp"),
                                Failure(summarize_uploaded_video_except(
                                  LibError("No usable temporary filename found")))))
           ELSE \E p \in names :
                  Becomes(r, [Log(req[r], "mktemp") EXCEPT
                                !.pc = "up_open", !.temp_path = p])
    /\ UNCHANGED <<summary_storage, fs, open_videos, started, uuid_count, issued,
                   clock, http_exc_str, locator, extracted, call, outcome, launcher>>
    /\ reply' = None

\* with open(temp_path, "wb") as buffer: the file exists from here on; then
\* the handler awaits file.read() and the loop may run other handlers.
up_open(r) ==
    /\ Running(r, "up_open")
    /\ fs' = fs \cup {req[r].temp_path}
    /\ req' = [req EXCEPT ![r] =
                 [@ EXCEPT !.pc = "up_read",
                           !.created = @ \cup {req[r].temp_path}]]
    /\ loop_owner' = 0
    /\ returned' = None
    /\ UNCHANGED <<summary_storage, open_videos, started, uuid_count, issued, clock,
                   http_exc_str, locator, extracted, call, outcome, launcher>>
    /\ reply' = None

\* content = await file.read(): the handler resumes when the loop is free.
up_read(r) ==
    /\ loop_owner = 0
    /\ req[r].pc = "up_read"
    /\ Becomes(r, [req[r] EXCEPT !.pc = "up_write",
                                 !.content_len = req[r].file_size])
    /\ UNCHANGED <<summary_storage, fs, open_videos, started, uuid_count, issued,
                   clock, http_exc_str, locator, extracted, call, outcome, launcher>>
    /\ reply' = None

\* buffer.write(content), the file is closed, and
\* transcript = extract_audio_transcript(temp_path) is called.
up_write(r) ==
    /\ Running(r, "up_write")
    /\ \E ok \in BOOLEAN :
         Becomes(r, IF ok
                    THEN [Log(req[r], "write") EXCEPT
                            !.pc = "fb_open",
                            !.fb_calls = @ + 1,
                            !.video_path = MediaFile(req[r].temp_path)]
                    ELSE Done(Raised(Log(req[r], "write"), "write"),
                              Failure(summarize_uploaded_video_except(
                                LibError("No space left on device")))))
    /\ UNCHANGED <<summary_storage, fs, open_videos, started, uuid_count, issued,
                   clock, http_exc_str, locator, extracted, call, outcome, launcher>>
    /\ reply' = None

up_summarize(r) == summarize_step(r, "up_summarize", "up_sentiment")
up_sentiment(r) == sentiment_step(r, "up_sentiment", "up_keywords")
up_keywords(r) == keywords_step(r, "up_keywords", "up_respond")

UploadMetadataMutantFetched(rec) ==
    [title |-> rec.filename, author |-> "", length |-> 0, views |-> 0,
     thumbnail |-> "", publish_date |-> None]

\* metadata = {"title": file.filename, "file_size": len(content),
\*             "file_type": file.content_type}
upload_metadata(rec) ==
    [title |-> rec.filename, file_size |-> rec.content_len,
     file_type |-> rec.content_type]

up_respond(r) == respond_step(r, "up_respond", "up_store", upload_metadata(req[r]))
up_store(r) == store_step(r, "up_store", "up_remove")

\* os.remove(temp_path), after the record is stored and inside the try.
up_remove(r) ==
    /\ Running(r, "up_remove")
    /\ \E ok \in os_remove_outcomes(req[r].temp_path) :
         /\ Becomes(r, IF ok
                       THEN [Log(req[r], "remove") EXCEPT !.pc = "up_return"]
                       ELSE Done(Raised(Log(req[r], "remove"), "remove"),
                                 Failure(summarize_uploaded_video_except(
                                   LibError("cannot remove file")))))
         /\ fs' = IF ok THEN fs \ {req[r].temp_path} ELSE fs
    /\ UNCHANGED <<summary_storage, open_videos, started, uuid_count, issued, clock,
                   http_exc_str, locator, extracted, call, outcome, launcher>>
    /\ reply' = None

up_return(r) == return_step(r, "up_return")

\* ------------------------------------------------- delete_summary (354-359)
\* The ids a DELETE request may name (0 is the id of no record).
DeleteIds == 0..MaxRequests

\* ------------------------------------------------ answers of the endpoints
\* No file is returned.
NoFile == [path |-> NoPath, filename |-> <<>>, content |-> None]

\* A JSON answer (status 200): a record, a list of records or a message.
JsonReply(op, id, record, list, message) ==
    [op |-> op, id |-> id, status |-> 200, record |-> record, list |-> list,
     detail |-> message, file |-> NoFile, timestamp |-> 0]

\* The answer to a raised HTTPException, or to an exception nothing caught.
ErrorReply(op, id, status, detail) ==
    [op |-> op, id |-> id, status |-> status, record |-> None, list |-> <<>>,
     detail |-> detail, file |-> NoFile, timestamp |-> 0]

\* FileResponse(temp_path, filename=..., media_type=...)
FileResponse(id, path, filename, content) ==
    [op |-> "download", id |-> id, status |-> 200, record |-> None, list |-> <<>>,
     detail |-> "",
     file |-> [path |-> path, filename |-> filename, content |-> Some(content)],
     timestamp |-> 0]

\* The first record of summary_storage with the id, if any (the loops of
\* get_summary and download_summary).
find_summary(summary_id) ==
    LET hits == {i \in 1..Len(summary_storage) :
                   summary_storage[i].id = summary_id}
    IN  IF hits = {} THEN None
        ELSE Some(summary_storage[CHOOSE i \in hits : \A j \in hits : i <= j])

DeleteMutantClear(summary_id) ==
    /\ loop_owner = 0
    /\ summary_storage' = <<>>
    /\ returned' = None
    /\ reply' = Some(JsonReply("delete", summary_id, None, <<>>, "Summary deleted"))
    /\ UNCHANGED <<fs, open_videos, req, loop_owner, started, uuid_count, issued,
                   clock, http_exc_str, locator, extracted, call, outcome, launcher>>

\* summary_storage = [s for s in summary_storage if s['id'] != summary_id]
delete_summary(summary_id) ==
    /\ loop_owner = 0
    /\ summary_storage' = SelectSeq(summary_storage, LAMBDA s : s.id # summary_id)
    /\ returned' = None
    /\ reply' = Some(JsonReply("delete", summary_id, None, <<>>, "Summary deleted"))
    /\ UNCHANGED <<fs, open_videos, req, loop_owner, started, uuid_count, issued,
                   clock, http_exc_str, locator, extracted, call, outcome, launcher>>

\* ---------------------------------------------------- get_summary (341-347)
\* for summary in summary_storage: if summary['id'] == summary_id: return it
get_summary(summary_id) ==
    /\ loop_owner = 0
    /\ reply' = Some(LET found == find_summary(summary_id)
                     IN  IF IsSome(found)
                         THEN JsonReply("get", summary_id, found, <<>>, "")
                         ELSE ErrorReply("get", summary_id, 404, "Summary not found"))
    /\ returned' = None
    /\ UNCHANGED <<summary_storage, fs, open_videos, req, loop_owner, started,
                   uuid_count, issued, clock, http_exc_str, locator, extracted,
                   call, outcome, launcher>>

\* ---------------------------------------------- get_all_summaries (349-352)
get_all_summaries ==
    /\ loop_owner = 0
    /\ reply' = Some(JsonReply("list", 0, None, summary_storage, ""))
    /\ returned' = None
    /\ UNCHANGED <<summary_storage, fs, open_videos, req, loop_owner, started,
                   uuid_count, issued, clock, http_exc_str, locator, extracted,
                   call, outcome, launcher>>

\* ----------------------------------------------- download_summary (361-396)
\* The formats a download may ask for.
DownloadFormats == { <<"t", "x", "t">> }

\* What the f-string of lines 377-387 is made of: the title, the timestamp,
\* the summary, the keywords, and the sentiment's label and score when the
\* record has a sentiment.
download_content(summary) ==
    [title |-> summary.metadata.title,
     generated |-> summary.timestamp,
     summary |-> summary.summary,
     keywords |-> Get(summary.keywords),
     sentiment |-> IF IsSome(summary.sentiment)
                   THEN Some([overall |-> Get(summary.sentiment).overall,
                              compound |-> Get(summary.sentiment).compound])
                   ELSE None]

\* The record is looked up; a temporary file is made for its text, which
\* nothing removes, and returned as a FileResponse.  mktemp raises when no
\* name is free, which the framework answers with 500.
download_summary(summary_id, format) ==
    /\ loop_owner = 0
    /\ LET found == find_summary(summary_id)
           names == mktemp_names(<<".">> \o format)
       IN  IF ~IsSome(found)
           THEN /\ reply' = Some(ErrorReply("download", summary_id, 404,
                                            "Summary not found"))
                /\ fs' = fs
           ELSE IF names = {}
           THEN /\ reply' = Some(ErrorReply("download", summary_id, 500,
                                            "Internal Server Error"))
                /\ fs' = fs
           ELSE \E p \in names :
                  /\ reply' = Some(FileResponse(
                                    summary_id, p,
                                    <<"summary_", summary_id, ".">> \o format,
                                    download_content(Get(found))))
                  /\ fs' = fs \cup {p}
    /\ returned' = None
    /\ UNCHANGED <<summary_storage, open_videos, req, loop_owner, started,
                   uuid_count, issued, clock, http_exc_str, locator, extracted,
                   call, outcome, launcher>>

\* --------------------------------------------------- health_check (398-401)
\* The time is read and returned; nothing keeps it.
health_check ==
    /\ loop_owner = 0
    /\ reply' = Some([JsonReply("health", 0, None, <<>>, "healthy") EXCEPT
                        !.timestamp = datetime_now])
    /\ returned' = None
    /\ UNCHANGED <<summary_storage, fs, open_videos, req, loop_owner, started,
                   uuid_count, issued, clock, http_exc_str, locator, extracted,
                   call, outcome, launcher>>

\* ------------------------------------------------------- specification
Init ==
    /\ summary_storage = <<>>
    /\ fs = {}
    /\ open_videos = {}
    /\ req = [r \in Slots |-> IdleReq]
    /\ loop_owner = 0
    /\ started = 0
    /\ uuid_count = 0
    /\ issued = <<>>
    /\ clock = 0
    /\ http_exc_str \in {"status_detail", "empty"}
    /\ returned = None
    /\ locator = <<>>
    /\ extracted = None
    /\ call = NoCall
    /\ outcome = None
    /\ reply = None
    /\ launcher = IdleLauncher

Next ==
    \/ \E r \in Slots :
         \/ receive_summarize(r)
         \/ sv_check_url(r)
         \/ sv_extract_id(r)
         \/ get_video_metadata(r)
         \/ extract_youtube_transcript(r)
         \/ fb_open(r)
         \/ fb_mktemp(r)
         \/ fb_write(r)
         \/ fb_recognize(r)
         \/ fb_remove(r)
         \/ fb_close(r)
         \/ sv_summarize(r)
         \/ sv_sentiment(r)
         \/ sv_keywords(r)
         \/ sv_respond(r)
         \/ sv_store(r)
         \/ sv_return(r)
         \/ receive_upload(r)
         \/ up_check_format(r)
         \/ up_mktemp(r)
         \/ up_open(r)
         \/ up_read(r)
         \/ up_write(r)
         \/ up_summarize(r)
         \/ up_sentiment(r)
         \/ up_keywords(r)
         \/ up_respond(r)
         \/ up_store(r)
         \/ up_remove(r)
         \/ up_return(r)
    \/ \E id \in DeleteIds : delete_summary(id)

Spec == Init /\ [][Next]_vars

\* The backend with the endpoints that read the store as well.
NextStore ==
    \/ Next
    \/ \E id \in DeleteIds : get_summary(id)
    \/ get_all_summaries
    \/ \E id \in DeleteIds, format \in DownloadFormats : download_summary(id, format)
    \/ health_check

SpecStore == Init /\ [][NextStore]_vars

\* ------------------------------- extract_video_id applied to one locator
\* What separates the pieces of a locator.
Separators == { <<"/">>, <<"v", "=">>, <<"?">> }
\* The lengths of the runs of id characters tried: none, one short of an
\* id, an id, one more than an id.
RunLengths == {0, IdLen - 1, IdLen, IdLen + 1}
\* The character the k-th piece's run is made of.
PieceChars == <<"a", "b", "c", "d", "e", "f">>

\* The k-th piece: a separator, then n times the piece's character.
Piece(k, sep, n) == sep \o Repeat(PieceChars[k], n)

RECURSIVE LocatorsOf(_)
\* The locators of exactly k pieces.
LocatorsOf(k) ==
    IF k = 0 THEN { <<>> }
    ELSE { l \o Piece(k, sep, n) :
             l \in LocatorsOf(k - 1), sep \in Separators, n \in RunLengths }

Locators == UNION { LocatorsOf(k) : k \in 0..MaxPieces }

InitExtract ==
    /\ summary_storage = <<>>
    /\ fs = {}
    /\ open_videos = {}
    /\ req = [r \in Slots |-> IdleReq]
    /\ loop_owner = 0
    /\ started = 0
    /\ uuid_count = 0
    /\ issued = <<>>
    /\ clock = 0
    /\ http_exc_str = "empty"
    /\ returned = None
    /\ locator \in Locators
    /\ extracted = None
    /\ call = NoCall
    /\ outcome = None
    /\ reply = None
    /\ launcher = IdleLauncher

\* extract_video_id(locator) is called.
apply_extract_video_id ==
    /\ extracted = None
    /\ extracted' = Some(extract_video_id(locator))
    /\ UNCHANGED <<summary_storage, fs, open_videos, req, loop_owner, started,
                   uuid_count, issued, clock, http_exc_str, returned, locator,
                   call, outcome, reply, launcher>>

NextExtract == apply_extract_video_id

SpecExtract == InitExtract /\ [][NextExtract]_vars

\* ------------------------------------------- the helpers applied on their own
\* The format and length options tried: the known ones and an unknown one.
FormatInputs == {"bullet_points", "narrative", "markdown", "bogus"}
LengthInputs == {"short", "medium", "long", "huge"}

\* The pieces a language option is made of.
LanguagePieces == {"english", "{", "}", "transcript"}

RECURSIVE LanguagesOf(_)
\* The language options of exactly k pieces.
LanguagesOf(k) ==
    IF k = 0 THEN { <<>> }
    ELSE { Append(l, p) : l \in LanguagesOf(k - 1), p \in LanguagePieces }

LanguageInputs == UNION { LanguagesOf(k) : k \in 0..MaxLanguagePieces }

\* The transcripts tried (one of them has braces of its own).
TranscriptInputs == { <<"s", "p", "e", "e", "c", "h">>, <<"a", "{", "b", "}">> }

generate_summary_calls ==
    { [fn |-> "generate_summary", transcript |-> t, format |-> f,
       length |-> l, language |-> g, llm |-> o] :
        t \in TranscriptInputs, f \in FormatInputs, l \in LengthInputs,
        g \in LanguageInputs, o \in LlmOutcomes }

\* The words short texts are made of: keywords, a word in capitals, stop
\* words of five and of four letters, a word of four letters, and a run of
\* word characters that is not all letters.
WordPool ==
    { <<"a", "p", "p", "l", "e">>, <<"B", "e", "r", "r", "y">>,
      <<"a", "b", "o", "u", "t">>, <<"t", "r", "e", "e">>,
      <<"t", "h", "i", "s">>, <<"p", "l", "u", "m", "s", "_", "n", "o", "w">> }

RECURSIVE WordListsOf(_)
\* The lists of exactly k words of the pool.
WordListsOf(k) ==
    IF k = 0 THEN { <<>> }
    ELSE { Append(l, w) : l \in WordListsOf(k - 1), w \in WordPool }

\* More distinct keywords than extract_keywords returns.
LongWords ==
    [k \in 1..(TopKeywords + 2) |->
       Repeat(LowerChar(PieceChars[((k - 1) % Len(PieceChars)) + 1]),
              MinKeywordExcl + 1 + ((k - 1) \div Len(PieceChars)))]

\* The texts tried: the short ones, and the long words followed by one of
\* them again.
KeywordTexts ==
    { JoinSpace(ws) : ws \in UNION { WordListsOf(k) : k \in 0..MaxWords } }
    \cup { JoinSpace(Append(LongWords, LongWords[k])) : k \in 1..Len(LongWords) }

extract_keywords_calls ==
    { [fn |-> "extract_keywords", text |-> t] : t \in KeywordTexts }

\* The compound scores of VADER, in hundredths.
CompoundScores == (0 - 100)..100

analyze_sentiment_calls ==
    { [fn |-> "analyze_sentiment",
       scores |-> [pos |-> ps, neg |-> 0, neu |-> 100 - ps, compound |-> c]] :
        ps \in {0, 60}, c \in CompoundScores }

HelperCalls ==
    generate_summary_calls \cup extract_keywords_calls \cup analyze_sentiment_calls

InitHelpers ==
    /\ summary_storage = <<>>
    /\ fs = {}
    /\ open_videos = {}
    /\ req = [r \in Slots |-> IdleReq]
    /\ loop_owner = 0
    /\ started = 0
    /\ uuid_count = 0
    /\ issued = <<>>
    /\ clock = 0
    /\ http_exc_str = "empty"
    /\ returned = None
    /\ locator = <<>>
    /\ extracted = None
    /\ call \in HelperCalls
    /\ outcome = None
    /\ reply = None
    /\ launcher = IdleLauncher

\* generate_summary(transcript, format, length, language) is called: the
\* template it builds, the prompt the provider gets, and what it gives back.
apply_generate_summary ==
    /\ call.fn = "generate_summary"
    /\ outcome = None
    /\ outcome' =
         Some([template |-> get_summary_prompt(call.format, call.length,
                                               call.language),
               prompt |-> llm_input(call.transcript, call.format, call.length,
                                    call.language),
               res |-> generate_summary(call.transcript, call.format,
                                        call.length, call.language, call.llm)])
    /\ UNCHANGED <<summary_storage, fs, open_videos, req, loop_owner, started,
                   uuid_count, issued, clock, http_exc_str, returned, locator,
                   extracted, call, reply, launcher>>

\* extract_keywords(text) is called.
apply_extract_keywords ==
    /\ call.fn = "extract_keywords"
    /\ outcome = None
    /\ outcome' = Some(extract_keywords(call.text))
    /\ UNCHANGED <<summary_storage, fs, open_videos, req, loop_owner, started,
                   uuid_count, issued, clock, http_exc_str, returned, locator,
                   extracted, call, reply, launcher>>

\* analyze_sentiment(text) is called, polarity_scores giving call.scores.
apply_analyze_sentiment ==
    /\ call.fn = "analyze_sentiment"
    /\ outcome = None
    /\ outcome' = Some(analyze_sentiment(call.scores))
    /\ UNCHANGED <<summary_storage, fs, open_videos, req, loop_owner, started,
                   uuid_count, issued, clock, http_exc_str, returned, locator,
                   extracted, call, reply, launcher>>

NextHelpers ==
    \/ apply_generate_summary
    \/ apply_extract_keywords
    \/ apply_analyze_sentiment

SpecHelpers == InitHelpers /\ [][NextHelpers]_vars

\* ------------------------- check_backend_connection (run_frontend.py 25-47)
\* range(5): the number of attempts.
MaxAttempts == 5
\* The attempt after which the except clause gives up (attempt < 4).
LastAttempt == 4
\* time.sleep(2)
RetrySeconds == 2
\* The status the health request must have.
StatusOk == 200

\* What requests.get(".../health", timeout=5) gives: a response with its
\* status, or a RequestException.
HealthOutcomes ==
    { [raised |-> FALSE, status_code |-> StatusOk],
      [raised |-> FALSE, status_code |-> 503],
      [raised |-> TRUE, status_code |-> 0] }

\* main calls check_backend_connection: the loop starts with attempt 0.
InitLauncher ==
    /\ summary_storage = <<>>
    /\ fs = {}
    /\ open_videos = {}
    /\ req = [r \in Slots |-> IdleReq]
    /\ loop_owner = 0
    /\ started = 0
    /\ uuid_count = 0
    /\ issued = <<>>
    /\ clock = 0
    /\ http_exc_str = "empty"
    /\ returned = None
    /\ locator = <<>>
    /\ extracted = None
    /\ call = NoCall
    /\ outcome = None
    /\ reply = None
    /\ launcher = [IdleLauncher EXCEPT !.pc = "request"]

\* The body of the loop (lines 32-45): the health request; status 200
\* returns True; another status goes to the next attempt, or out of the
\* loop after the last one; a RequestException goes to the sleep when
\* attempt < 4 and returns False otherwise.
cbc_request ==
    /\ launcher.pc = "request"
    /\ \E o \in HealthOutcomes :
         LET logged == [launcher EXCEPT
                          !.log = Append(@, [ev |-> "get",
                                             attempt |-> launcher.attempt,
                                             raised |-> o.raised,
                                             status_code |-> o.status_code])]
         IN  launcher' =
               IF ~o.raised /\ o.status_code = StatusOk
               THEN [logged EXCEPT !.pc = "done", !.result = Some(TRUE)]
               ELSE IF ~o.raised
               THEN [logged EXCEPT
                       !.attempt = @ + 1,
                       !.pc = IF launcher.attempt + 1 < MaxAttempts
                              THEN "request" ELSE "after_loop"]
               ELSE IF launcher.attempt < LastAttempt
               THEN [logged EXCEPT !.pc = "sleep"]
               ELSE [logged EXCEPT !.pc = "done", !.result = Some(FALSE)]
    /\ UNCHANGED <<summary_storage, fs, open_videos, req, loop_owner, started,
                   uuid_count, issued, clock, http_exc_str, returned, locator,
                   extracted, call, outcome, reply>>

\* time.sleep(2), then the next attempt.
cbc_sleep ==
    /\ launcher.pc = "sleep"
    /\ launcher' = [launcher EXCEPT
                      !.log = Append(@, [ev |-> "sleep",
                                         attempt |-> launcher.attempt,
                                         raised |-> FALSE,
                                         status_code |-> RetrySeconds]),
                      !.attempt = @ + 1,
                      !.pc = "request"]
    /\ UNCHANGED <<summary_storage, fs, open_videos, req, loop_owner, started,
                   uuid_count, issued, clock, http_exc_str, returned, locator,
                   extracted, call, outcome, reply>>

\* return False after the loop (line 47).
cbc_return ==
    /\ launcher.pc = "after_loop"
    /\ launcher' = [launcher EXCEPT !.pc = "done", !.result = Some(FALSE)]
    /\ UNCHANGED <<summary_storage, fs, open_videos, req, loop_owner, started,
                   uuid_count, issued, clock, http_exc_str, returned, locator,
                   extracted, call, outcome, reply>>

NextLauncher ==
    \/ cbc_request
    \/ cbc_sleep
    \/ cbc_return

SpecLauncher == InitLauncher /\ [][NextLauncher]_vars

\* ================================================================ claims
\* The handlers in progress and the one that ended in the last step.
AllRecs ==
    {req[r] : r \in Slots} \cup (IF IsSome(returned) THEN {Get(returned)} ELSE {})

\* The handler that ended in the last step (only where IsSome(returned)).
Ended == Get(returned)

\* C1: whenever a handler that called extract_audio_transcript has ended,
\* on success or on failure of the call, the temporary audio file of the
\* call no longer exists and its media handle is closed.
ClaimC1 ==
    IsSome(returned) /\ Ended.fb_calls > 0 =>
        /\ Ended.audio_path \notin fs
        /\ Ended.rid \notin open_videos

\* The positions inside extract_audio_transcript.
FallbackPcs ==
    {"fb_open", "fb_mktemp", "fb_write", "fb_recognize", "fb_remove", "fb_close"}

\* C2: when the caption provider has failed in extract_youtube_transcript,
\* extract_audio_transcript is called exactly once, on the watch URL of the
\* video id, and the outcome of extract_youtube_transcript is the outcome
\* of that call: its text, or its error (which wraps the error of the
\* fallback's own try block); it is never the caption provider's error.
TheoremC2 ==
    \A rec \in AllRecs :
        rec.kind = "url" /\ IsSome(rec.primary_error) =>
            /\ rec.fb_calls = 1
            /\ rec.video_path = MediaUrl(WatchUrl(rec.video_id))
            /\ rec.pc \notin FallbackPcs =>
                 /\ IsSome(rec.fb_result)
                 /\ rec.acq_result = rec.fb_result
                 /\ LET out == Get(rec.acq_result)
                    IN  /\ out.ok => rec.transcript = out.text
                        /\ ~out.ok =>
                             /\ out.err # Get(rec.primary_error)
                             /\ out.err.type = "HTTPException"
                             /\ Head(out.err.detail) = "Error extracting transcript: "
                             /\ \A i \in 1..Len(out.err.detail) :
                                  out.err.detail[i] \notin Range(Get(rec.primary_error).detail)
                             /\ rec.pc = "done"
                             /\ Get(rec.result) = Failure(summarize_video_except(out.err))

\* C2's case: the captions failed, the fallback was called and failed too.
WitnessC2 ==
    /\ IsSome(returned)
    /\ IsSome(Ended.primary_error)
    /\ IsSome(Ended.fb_result)
    /\ ~Get(Ended.fb_result).ok

\* C3: a handler that ends without error has produced exactly one record,
\* whose transcript and summary are not empty.
ClaimC3 ==
    IsSome(returned) /\ Get(Ended.result).ok =>
        /\ Len(Ended.appended) = 1
        /\ Get(Get(Ended.result).body).transcript # <<>>
        /\ Get(Get(Ended.result).body).summary # <<>>

\* C4: a handler that ends in an error has appended nothing to
\* summary_storage, and a handler that has appended a record ends by
\* returning that record.
ClaimC4 ==
    IsSome(returned) =>
        /\ ~Get(Ended.result).ok => Ended.appended = <<>>
        /\ Ended.appended # <<>> =>
             /\ Get(Ended.result).ok
             /\ Get(Ended.result).body = Some(Ended.appended[1])

\* The order of the stages of a URL run.
StageRank ==
    [extract_id |-> 1, metadata |-> 2, captions |-> 3, fallback |-> 4,
     summarize |-> 5, sentiment |-> 6, keywords |-> 7, respond |-> 8,
     store |-> 9]

\* C5: the stages of a URL run are entered in the order extract id,
\* metadata, transcript (captions, then the fallback), summarize,
\* sentiment, keywords, record; once the metadata fetch has raised, the
\* summarizer is never called and no record is built or stored; and a
\* record is built only after the metadata fetch and the transcript
\* acquisition have both succeeded.
TheoremC5 ==
    \A rec \in AllRecs :
        rec.kind = "url" =>
            /\ \A i \in 1..Len(rec.trace) : rec.trace[i] \in DOMAIN StageRank
            /\ \A i, j \in 1..Len(rec.trace) :
                 i < j => StageRank[rec.trace[i]] < StageRank[rec.trace[j]]
            /\ "metadata" \in Range(rec.raised) =>
                 /\ "summarize" \notin Range(rec.trace)
                 /\ rec.response = None
                 /\ rec.appended = <<>>
                 /\ rec.pc = "done" /\ ~Get(rec.result).ok
            /\ IsSome(rec.response) =>
                 /\ "metadata" \in Range(rec.trace)
                 /\ "metadata" \notin Range(rec.raised)
                 /\ IsSome(rec.metadata)
                 /\ IsSome(rec.acq_result) /\ Get(rec.acq_result).ok

\* C5's case: a URL run has ended on a failed metadata fetch.
WitnessC5 ==
    /\ IsSome(returned)
    /\ Ended.kind = "url"
    /\ "metadata" \in Range(Ended.raised)

\* The file name ends, whatever the case of its letters, in one of
\* .mp4 .avi .mov .mkv.
HasAcceptedExtension(fn) ==
    /\ Len(fn) >= 4
    /\ <<LowerChar(fn[Len(fn) - 3]), LowerChar(fn[Len(fn) - 2]),
         LowerChar(fn[Len(fn) - 1]), LowerChar(fn[Len(fn)])>>
          \in { <<".", "m", "p", "4">>, <<".", "a", "v", "i">>,
                <<".", "m", "o", "v">>, <<".", "m", "k", "v">> }

\* C6: an upload whose file name has no accepted extension ends, right
\* after the check of the name, with the error 400 "Unsupported file
\* format": it has entered no stage, created no file, called neither
\* extract_audio_transcript nor the summarizer, and appended nothing.
TheoremC6 ==
    \A rec \in AllRecs :
        (/\ rec.kind = "upload"
         /\ ~HasAcceptedExtension(rec.filename)
         /\ rec.pc # "up_check_format") =>
            /\ rec.pc = "done"
            /\ Get(rec.result) = Failure(HTTPException(400, <<"Unsupported file format">>))
            /\ rec.trace = <<>>
            /\ rec.created = {}
            /\ rec.temp_path = NoPath
            /\ rec.fb_calls = 0
            /\ rec.appended = <<>>

\* C6's case: an upload named without an accepted extension has ended.
WitnessC6 ==
    /\ IsSome(returned)
    /\ Ended.kind = "upload"
    /\ ~HasAcceptedExtension(Ended.filename)

\* C7: a file run never calls the caption provider or the metadata
\* provider; it calls extract_audio_transcript once, on the uploaded
\* file's temporary path; and the metadata of its record are exactly the
\* file's name, size and content type.
TheoremC7 ==
    \A rec \in AllRecs :
        rec.kind = "upload" =>
            /\ "captions" \notin Range(rec.trace)
            /\ "metadata" \notin Range(rec.trace)
            /\ rec.primary_error = None
            /\ rec.metadata = None
            /\ rec.fb_calls <= 1
            /\ rec.fb_calls = 1 =>
                 /\ rec.temp_path # NoPath
                 /\ rec.video_path = MediaFile(rec.temp_path)
            /\ "summarize" \in Range(rec.trace) => rec.fb_calls = 1
            /\ IsSome(rec.response) =>
                 Get(rec.response).metadata =
                    [title |-> rec.filename, file_size |-> rec.file_size,
                     file_type |-> rec.content_type]

\* C7's case: a file run has ended with a record.
WitnessC7 ==
    /\ IsSome(returned)
    /\ Ended.kind = "upload"
    /\ Get(Ended.result).ok

\* C8: the record of a run has a sentiment exactly when include_sentiment
\* was asked for, it always has a keyword list, and analyze_sentiment is
\* not called when include_sentiment is false.
TheoremC8 ==
    \A rec \in AllRecs :
        /\ ~rec.include_sentiment =>
             "sentiment" \notin Range(rec.trace) /\ rec.sentiment = None
        /\ IsSome(rec.response) =>
             /\ IsSome(Get(rec.response).sentiment) <=> rec.include_sentiment
             /\ IsSome(Get(rec.response).keywords)
             /\ "keywords" \in Range(rec.trace)
             /\ "sentiment" \in Range(rec.trace) <=> rec.include_sentiment
        /\ rec.pc = "done" /\ Get(rec.result).ok =>
             Get(rec.result).body = rec.response

\* C8's case: a run without include_sentiment has ended with a record.
WitnessC8 ==
    /\ IsSome(returned)
    /\ Get(Ended.result).ok
    /\ ~Ended.include_sentiment
    /\ Get(Get(Ended.result).body).sentiment = None
    /\ IsSome(Get(Get(Ended.result).body).keywords)

\* C9: no two stored records have the same id, and no id is given to two
\* records, even after the record that had it was deleted.
TheoremC9 ==
    /\ \A i, j \in 1..Len(summary_storage) :
         i # j => summary_storage[i].id # summary_storage[j].id
    /\ \A i, j \in 1..Len(issued) : i # j => issued[i] # issued[j]
    /\ \A i \in 1..Len(summary_storage) :
         summary_storage[i].id \in Range(issued)

\* C9's case: a record was deleted and another record was made after it.
WitnessC9 ==
    /\ Len(issued) = 2
    /\ Len(summary_storage) = 1
    /\ summary_storage[1].id = issued[2]

\* The runs of IdLen id characters right after a "v=" of s.
VTokens(s) ==
    { SubSeq(s, i + 2, i + 1 + IdLen) :
        i \in { k \in 1..Len(s) :
                  /\ k + 1 + IdLen <= Len(s)
                  /\ s[k] = "v" /\ s[k + 1] = "="
                  /\ \A m \in (k + 2)..(k + 1 + IdLen) : s[m] \in IdChars } }

\* The runs of IdLen id characters right after a "/" of s.
SlashTokens(s) ==
    { SubSeq(s, i + 1, i + IdLen) :
        i \in { k \in 1..Len(s) :
                  /\ k + IdLen <= Len(s)
                  /\ s[k] = "/"
                  /\ \A m \in (k + 1)..(k + IdLen) : s[m] \in IdChars } }

\* C10: extract_video_id returns the token of IdLen id characters that
\* follows "v=" or "/" in the locator, the one after "v=" also when an
\* earlier path segment of IdLen or more id characters precedes it, and
\* raises the invalid-locator error when the locator has no such token.
ClaimC10 ==
    IsSome(extracted) =>
        LET res == Get(extracted)
        IN  IF VTokens(locator) \cup SlashTokens(locator) = {}
            THEN res = Raise(ValueError("Invalid YouTube URL"))
            ELSE /\ res.ok
                 /\ res.text \in VTokens(locator) \cup SlashTokens(locator)
                 /\ VTokens(locator) # {} => res.text \in VTokens(locator)

\* What marks, in the detail of an error, the stage that raised it.
StageMarker ==
    [extract_id |-> "Invalid YouTube URL",
     metadata |-> "Error fetching metadata: ",
     fallback |-> "Error extracting transcript: ",
     summarize |-> "Error generating summary: "]

\* The messages of the errors the providers and the system raise.
ProviderMessages ==
    { "Invalid YouTube URL", "video unavailable", "cannot open media",
      "No usable temporary filename found", "no audio track",
      "cannot write audio", "No such file or directory",
      "speech unintelligible", "cannot remove file", "rate limit" }

\* C11: when a run has ended on the failure of the locator, the metadata,
\* the transcript or the summary stage, the error the caller gets names
\* that stage and no other, and carries the message of the underlying
\* error.
ClaimC11 ==
    (/\ IsSome(returned)
     /\ Ended.raised # <<>>
     /\ Ended.raised[Len(Ended.raised)] \in DOMAIN StageMarker) =>
        LET stage == Ended.raised[Len(Ended.raised)]
            detail == Get(Ended.result).err.detail
        IN  /\ ~Get(Ended.result).ok
            /\ StageMarker[stage] \in Range(detail)
            /\ \A other \in DOMAIN StageMarker \ {stage} :
                 StageMarker[other] \notin Range(detail)
            /\ \E m \in ProviderMessages : m \in Range(detail)

\* No brace is among the pieces of the text.
NoBraces(text) == "{" \notin Range(text) /\ "}" \notin Range(text)

\* C12: whatever the format and the length options are, the template has
\* the directive of the format when it is bullet_points, narrative or
\* markdown and the one of bullet_points otherwise, and the directive of
\* the length when it is short, medium or long and the one of medium
\* otherwise; and generate_summary fails only when the provider does.
TheoremC12 ==
    (call.fn = "generate_summary" /\ IsSome(outcome)) =>
        LET out == Get(outcome)
        IN  /\ out.template[2] =
                 (IF call.format = "narrative"
                  THEN "Write the summary as a flowing narrative story"
                  ELSE IF call.format = "markdown"
                  THEN "Format the summary using markdown with appropriate headings and structure"
                  ELSE "Provide the summary in clear bullet points")
            /\ out.template[4] =
                 (IF call.length = "short"
                  THEN "Keep the summary concise, around 100-150 words"
                  ELSE IF call.length = "long"
                  THEN "Create a detailed summary of 400-500 words"
                  ELSE "Provide a comprehensive summary of 200-300 words")
            /\ NoBraces(call.language) => (out.res.ok <=> call.llm.ok)

\* C12's case: generate_summary was called with a format and a length it
\* does not know, and returned a summary.
WitnessC12 ==
    /\ call.fn = "generate_summary"
    /\ call.format = "bogus"
    /\ call.length = "huge"
    /\ IsSome(outcome)
    /\ Get(outcome).res.ok

\* The number of times the stage is in the trace.
Entered(rec, stage) ==
    Cardinality({i \in 1..Len(rec.trace) : rec.trace[i] = stage})

QualifyingTokens(text) ==
    SelectSeq(findall_words(Lower(text)),
              LAMBDA w : Len(w) >= 5 /\ w \notin StopWords)

\* The position of the first occurrence of w in ws.
FirstIndex(ws, w) ==
    CHOOSE i \in 1..Len(ws) : ws[i] = w /\ \A j \in 1..(i - 1) : ws[j] # w

\* w1 comes before w2 in the ranking of the words ws: it is more frequent,
\* or as frequent and first seen earlier.
RanksBefore(ws, w1, w2) ==
    \/ Count(ws, w1) > Count(ws, w2)
    \/ Count(ws, w1) = Count(ws, w2) /\ FirstIndex(ws, w1) < FirstIndex(ws, w2)

\* C14: extract_keywords returns at most 10 words without duplicates, each
\* lowercase, of letters only, of 5 letters or more and no stop word, in
\* the order of descending frequency and, among equally frequent words, of
\* first appearance; they are the first 10 of that ranking of all the
\* qualifying words of the text.
TheoremC14 ==
    (call.fn = "extract_keywords" /\ IsSome(outcome)) =>
        LET kw == Get(outcome)
            q == QualifyingTokens(call.text)
        IN  /\ Len(kw) <= 10
            /\ \A i, j \in 1..Len(kw) : i # j => kw[i] # kw[j]
            /\ \A i \in 1..Len(kw) :
                 /\ Len(kw[i]) >= 5
                 /\ Range(kw[i]) \subseteq LowerLetters
                 /\ kw[i] \notin StopWords
                 /\ kw[i] \in Range(q)
            /\ \A i, j \in 1..Len(kw) : i < j => RanksBefore(q, kw[i], kw[j])
            /\ \A w \in Range(q) \ Range(kw) :
                 /\ Len(kw) = 10
                 /\ RanksBefore(q, kw[10], w)

\* C14's case: a text of more than 10 distinct keywords, the last of which
\* is the most frequent.
WitnessC14 ==
    /\ call.fn = "extract_keywords"
    /\ IsSome(outcome)
    /\ Cardinality(Range(QualifyingTokens(call.text))) > 10
    /\ Len(Get(outcome)) = 10
    /\ Get(outcome)[1] = LongWords[Len(LongWords)]

\* C15: the label of analyze_sentiment is positive when the compound score
\* is 0.05 or more, negative when it is -0.05 or less, and neutral in
\* between, whatever the other scores are (scores in hundredths).
TheoremC15 ==
    (call.fn = "analyze_sentiment" /\ IsSome(outcome)) =>
        LET c == call.scores.compound
            label == Get(outcome).overall
        IN  /\ label \in {"positive", "negative", "neutral"}
            /\ label = "positive" <=> c >= 5
            /\ label = "negative" <=> c <= 0 - 5
            /\ label = "neutral" <=> (0 - 5 < c /\ c < 5)
            /\ Get(outcome).compound = c

\* C15's case: analyze_sentiment was called on a score at a threshold.
WitnessC15 ==
    /\ call.fn = "analyze_sentiment"
    /\ call.scores.compound = 5
    /\ IsSome(outcome)
    /\ Get(outcome).overall = "positive"

\* The positions of a transcript acquisition, in the order of the code.
AcqPos ==
    [yt_captions |-> 1, fb_open |-> 2, fb_mktemp |-> 3, fb_write |-> 4,
     fb_recognize |-> 5, fb_remove |-> 6, fb_close |-> 7]

\* Each path of an acquisition is tried at most once, and the fallback of a
\* URL run only after its captions have failed.
NoRetryState ==
    \A rec \in AllRecs :
        /\ Entered(rec, "captions") <= 1
        /\ Entered(rec, "fallback") <= 1
        /\ rec.fb_calls <= 1
        /\ rec.kind = "url" /\ rec.fb_calls = 1 =>
             /\ "captions" \in Range(rec.raised)
             /\ IsSome(rec.primary_error)
             /\ rec.captions = None
        /\ IsSome(rec.captions) =>
             /\ rec.fb_calls = 0
             /\ "fallback" \notin Range(rec.trace)
             /\ rec.fb_result = None
        /\ IsSome(rec.acq_result) \/ IsSome(rec.fb_result) =>
             rec.pc \notin DOMAIN AcqPos

\* A handler inside an acquisition never steps back in it, and one that has
\* the outcome of its acquisition never enters it again.
NoRetryStep ==
    \A r \in Slots :
        req'[r].rid = req[r].rid =>
            /\ (req[r].pc \in DOMAIN AcqPos /\ req'[r].pc \in DOMAIN AcqPos) =>
                 AcqPos[req'[r].pc] >= AcqPos[req[r].pc]
            /\ (IsSome(req[r].acq_result) \/ IsSome(req[r].fb_result)) =>
                 req'[r].pc \notin DOMAIN AcqPos

\* C16: in one acquisition the caption provider is tried at most once and
\* extract_audio_transcript at most once, the latter in a URL run only
\* after the captions of that run have failed and never after they were
\* obtained, and the acquisition ends without going back to an earlier
\* position.
TheoremC16 == []NoRetryState /\ [][NoRetryStep]_vars

\* C16's case: the captions failed and the one call of the fallback gave
\* the transcript of a run that has ended.
WitnessC16 ==
    /\ IsSome(returned)
    /\ Ended.kind = "url"
    /\ "captions" \in Range(Ended.raised)
    /\ Ended.fb_calls = 1
    /\ IsSome(Ended.fb_result) /\ Get(Ended.fb_result).ok

\* The temporary paths the handler has chosen.
PathsOf(rec) == {rec.temp_path, rec.audio_path} \ {NoPath}

\* No two handlers in progress have a temporary path in common.
DistinctPaths ==
    \A r1, r2 \in Slots :
        r1 # r2 => PathsOf(req[r1]) \cap PathsOf(req[r2]) = {}

\* Between the choice of a path and the creation of the file the handler
\* keeps the event loop, and the path is still free.
ChosenNotCreated ==
    \A r \in Slots :
        /\ req[r].pc = "fb_write" =>
             loop_owner = r /\ req[r].audio_path \notin fs
        /\ req[r].pc = "up_open" =>
             loop_owner = r /\ req[r].temp_path \notin fs

\* A file is created or removed only by the handler that chose its path.
OwnFilesStep ==
    \A p \in (fs \ fs') \cup (fs' \ fs) :
        \E r \in Slots : loop_owner = r /\ p \in PathsOf(req[r])

\* C17: handlers in progress at the same time never have the same
\* temporary path, no other handler runs between the choice of a path and
\* the creation of its file, and a handler creates and removes only the
\* files of its own paths.
TheoremC17 == [](DistinctPaths /\ ChosenNotCreated) /\ [][OwnFilesStep]_vars

\* C17's case: two uploads of the same extension are in progress, each
\* with its temporary file.
WitnessC17 ==
    /\ req[1].pc = "up_read"
    /\ req[2].pc = "up_read"
    /\ req[1].temp_path.suffix = req[2].temp_path.suffix
    /\ {req[1].temp_path, req[2].temp_path} \subseteq fs

\* The record of a run that has returned one is made of the run's own
\* inputs and of what the providers answered to it, and it is once in
\* summary_storage.
RunAlone ==
    (IsSome(returned) /\ Get(Ended.result).ok) =>
        LET b == Get(Get(Ended.result).body)
        IN  /\ b.transcript =
                 (IF IsSome(Ended.captions) THEN JoinSpace(Get(Ended.captions))
                  ELSE Get(Ended.fb_result).text)
            /\ b.summary = Get(Ended.summary_result).text
            /\ b.keywords = Some(extract_keywords(b.transcript))
            /\ b.metadata =
                 (IF Ended.kind = "url" THEN Get(Ended.metadata)
                  ELSE [title |-> Ended.filename, file_size |-> Ended.file_size,
                        file_type |-> Ended.content_type])
            /\ IsSome(b.sentiment) <=> Ended.include_sentiment
            /\ Ended.appended = <<b>>
            /\ Cardinality({i \in 1..Len(summary_storage) :
                              summary_storage[i] = b}) = 1

\* summary_storage changes only by the append of the record of the running
\* handler, or by the removal of the records of one id.
StoreStep ==
    summary_storage' # summary_storage =>
        \/ \E r \in Slots :
             /\ loop_owner = r
             /\ IsSome(req[r].response)
             /\ summary_storage' = Append(summary_storage, Get(req[r].response))
        \/ \E id \in DeleteIds :
             summary_storage' = SelectSeq(summary_storage, LAMBDA x : x.id # id)

\* C18: however runs and deletes interleave, a run that succeeds returns
\* the record made of its own inputs and provider answers, that record is
\* once in summary_storage, and no step removes or adds records other than
\* the append of one run's record and the delete of one id.
TheoremC18 == []RunAlone /\ [][StoreStep]_vars

\* C18's case: the first run received ends after the second one, both
\* with their records in summary_storage.
WitnessC18 ==
    /\ IsSome(returned)
    /\ Get(Ended.result).ok
    /\ Ended.rid = 1
    /\ Len(summary_storage) = 2
    /\ summary_storage[2] = Get(Get(Ended.result).body)

\* C19: whatever the language option is, generate_summary fails only when
\* the provider does, and the prompt the provider gets is the template with
\* the language as it was given and the transcript as it is, once, in the
\* place of the template's slot.
ClaimC19 ==
    (call.fn = "generate_summary" /\ IsSome(outcome)) =>
        LET out == Get(outcome)
            n == Len(call.language)
            m == Len(call.transcript)
        IN  /\ out.res.ok <=> call.llm.ok
            /\ out.prompt.ok
            /\ Len(out.prompt.text) = n + m + 7
            /\ SubSeq(out.prompt.text, 6, 5 + n) = call.language
            /\ SubSeq(out.prompt.text, 7 + n, 6 + n + m) = call.transcript

RECURSIVE Offset(_, _)
\* Where the k-th fragment starts in the text of the joined fragments,
\* less one.
Offset(items, k) ==
    IF k = 1 THEN 0 ELSE Offset(items, k - 1) + Len(items[k - 1]) + 1

\* The text is the fragments in their order, a space between two of them.
JoinedBy(items, text) ==
    IF items = <<>> THEN text = <<>>
    ELSE /\ Len(text) = Offset(items, Len(items)) + Len(items[Len(items)])
         /\ \A k \in 1..Len(items) :
              SubSeq(text, Offset(items, k) + 1,
                     Offset(items, k) + Len(items[k])) = items[k]
         /\ \A k \in 2..Len(items) : text[Offset(items, k)] = " "

\* C20: the transcript of a run whose captions were obtained is the texts
\* of the fragments in the order given, joined by single spaces ("Hello"
\* and "world." give "Hello world."), and the transcript of a run whose
\* fallback succeeded is the text the recognizer returned.
TheoremC20 ==
    \A rec \in AllRecs :
        /\ IsSome(rec.captions) =>
             /\ JoinedBy(Get(rec.captions), rec.transcript)
             /\ rec.acq_result = Some(Ret(rec.transcript))
             /\ Get(rec.captions) = <<Hello, World>> =>
                  rec.transcript =
                     <<"H", "e", "l", "l", "o", " ", "w", "o", "r", "l", "d", ".">>
        /\ (IsSome(rec.fb_result) /\ Get(rec.fb_result).ok) =>
             /\ rec.transcript = rec.fb_text
             /\ Get(rec.fb_result).text = rec.fb_text
             /\ \E o \in SpeechOutcomes : o.ok /\ o.text = rec.fb_text

\* C20's case: a run whose captions were two fragments has returned its
\* record.
WitnessC20 ==
    /\ IsSome(returned)
    /\ Get(Ended.result).ok
    /\ Ended.captions = Some(<<Hello, World>>)

\* A record of summary_storage has the id.
Stored(id) == \E i \in 1..Len(summary_storage) : summary_storage[i].id = id

\* What the endpoint called in the last step answered agrees with
\* summary_storage as it is now.
AnswersAgree ==
    IsSome(reply) =>
        LET a == Get(reply)
        IN  /\ a.op = "delete" =>
                 a.status = 200 /\ a.detail = "Summary deleted" /\ ~Stored(a.id)
            /\ a.op = "get" =>
                 IF Stored(a.id)
                 THEN /\ a.status = 200
                      /\ IsSome(a.record)
                      /\ Get(a.record).id = a.id
                      /\ Get(a.record) \in Range(summary_storage)
                 ELSE a.status = 404 /\ a.record = None
            /\ a.op = "download" => (~Stored(a.id) => a.status = 404)
            /\ a.op = "list" => a.list = summary_storage

\* A step changes summary_storage only by the append of one record at its
\* end or by a delete, which removes the records of its id and no other;
\* the other endpoints leave it as it is.
StoreFrameStep ==
    /\ summary_storage' # summary_storage =>
         \/ \E r \in Slots :
              /\ loop_owner = r
              /\ IsSome(req[r].response)
              /\ summary_storage' = Append(summary_storage, Get(req[r].response))
         \/ IsSome(reply') /\ Get(reply').op = "delete"
    /\ IsSome(reply') =>
         IF Get(reply').op = "delete"
         THEN LET id == Get(reply').id
              IN  summary_storage' =
                     SelectSeq(summary_storage, LAMBDA x : x.id # id)
         ELSE summary_storage' = summary_storage

\* C21: summary_storage changes only by the append of one record at its
\* end, made by a run that succeeds, or by a delete; delete(id) removes the
\* records of that id and nothing else, keeps the others and their order,
\* and answers success whether or not a record had the id; after it get(id)
\* and download(id) answer not found, and get of another stored id returns
\* that record; get, list, download and health leave the store unchanged.
ClaimC21 ==
    /\ [](AnswersAgree
          /\ (IsSome(returned) /\ ~Get(Ended.result).ok => Ended.appended = <<>>))
    /\ [][StoreFrameStep]_vars

\* The health requests check_backend_connection has made.
HealthRequests == SelectSeq(launcher.log, LAMBDA e : e.ev = "get")

\* The request got a response of status 200.
Got200(e) == e.ev = "get" /\ ~e.raised /\ e.status_code = 200

\* check_backend_connection makes at most 5 health requests; it returns
\* True exactly when a request got status 200, which is then its last one.
AttemptsAndResult ==
    /\ Len(HealthRequests) <= 5
    /\ launcher.pc = "done" =>
         /\ IsSome(launcher.result)
         /\ Get(launcher.result) <=>
              \E i \in 1..Len(launcher.log) : Got200(launcher.log[i])
         /\ \A i \in 1..Len(launcher.log) :
              Got200(launcher.log[i]) => i = Len(launcher.log)
         /\ ~Get(launcher.result) => Len(HealthRequests) = 5

\* C22: check_backend_connection ends after at most 5 health requests; it
\* returns True exactly when one of them got status 200, after which it
\* makes no other, and False when none of the 5 did, by an error or by
\* another status; and it sleeps 2 seconds after each failed request that
\* is followed by another one, and does not sleep after the fifth.
ClaimC22 ==
    /\ AttemptsAndResult
    /\ \A i \in 1..Len(launcher.log) :
         LET e == launcher.log[i]
         IN  /\ (e.ev = "get" /\ ~Got200(e) /\ i < Len(launcher.log)) =>
                  /\ launcher.log[i + 1].ev = "sleep"
                  /\ launcher.log[i + 1].status_code = 2
             /\ e.ev = "sleep" =>
                  /\ i > 1 /\ launcher.log[i - 1].ev = "get"
                  /\ e.attempt < 4
    /\ launcher.pc = "done" /\ launcher.log # <<>> =>
         launcher.log[Len(launcher.log)].ev = "get"
====
